---- MODULE Spec2Model ----
(***************************************************************************)
(* Team formation of maxchv/work-test2 (src/main.py): Person, Task and     *)
(* Task.make_teams, the skill-cover search with redundancy pruning,        *)
(* duplicate suppression and ranking by total salary.                      *)
(*                                                                         *)
(* A Person is a record [name, salary, skills]; skills and a task's        *)
(* required skills are sequences, as the lists of the source are.  Record  *)
(* equality is Person.__eq__ (name, salary and skills all equal).  One     *)
(* call of make_teams is a run through the actions below: one action per   *)
(* pass of the outer loop's head and per pass of the inner loop's body.    *)
(***************************************************************************)
EXTENDS Integers, Sequences, FiniteSets

VARIABLES
    people,                      \* the roster handed to every make_teams call
    tasks,                       \* the Task objects: [name, skills, teams]
    calls,                       \* calls[t]: how often make_teams has returned on task t
    pc,                          \* "idle" | "outer" | "inner"
    self,                        \* index of the task of the running call, 0 if none
    people_have_skills,          \* local of make_teams (line 106)
    people_with_unique_skills,   \* local of make_teams (line 116)
    teams,                       \* local of make_teams (line 107)
    curr_i,                      \* position of the outer loop in people_have_skills
    other_i,                     \* position of the inner loop in people_have_skills
    team,                        \* local of make_teams (lines 129, 144, 175)
    teams_skills                 \* local of make_teams (lines 129, 150, 175)

vars == <<people, tasks, calls, pc, self, people_have_skills,
          people_with_unique_skills, teams, curr_i, other_i, team, teams_skills>>

----------------------------------------------------------------------------
(* Bounds and the inputs drawn in Init *)

MaxPeople == 4

MaxCalls == 2

\* names in Python's string order; NameRank gives a name's position in it
NameOrder == <<"ann", "bob", "cid", "dan">>

Person(n, sal, sk) == [name |-> n, salary |-> sal, skills |-> sk]

\* one person for every set of the three task skills; names and salaries
\* repeat, and one person has a skill no task asks for
Pool ==
    { Person("ann", 1, <<"js">>),
      Person("bob", 2, <<"py">>),
      Person("ann", 2, <<"db">>),
      Person("bob", 1, <<"js", "py">>),
      Person("cid", 2, <<"py", "db">>),
      Person("cid", 1, <<"db", "php", "js">>),
      Person("dan", 3, <<"js", "py", "db">>) }

TaskSkills ==
    { <<>>, <<"js", "py">>, <<"js", "py", "db">>, <<"py", "js", "py">> }

PoolOfTasks ==
    { Person("ann", 1, <<"js">>),
      Person("ann", 2, <<"db">>),
      Person("bob", 1, <<"js", "py">>),
      Person("cid", 2, <<"py", "db">>),
      Person("dan", 3, <<"js", "py", "db">>) }

TaskPairs ==
    { <<a, b>> : a \in {<<"js", "py">>, <<"js", "py", "db">>},
                 b \in {<<"py", "db">>, <<"js", "py", "db">>} }

Rosters(pool) == UNION { [1..n -> pool] : n \in 0..MaxPeople }

----------------------------------------------------------------------------
(* Helpers: Python's set(), in, list.remove, list.sort *)

Range(s) == { s[i] : i \in 1..Len(s) }

In(x, s) == \E i \in 1..Len(s) : s[i] = x

\* set(p.skills) & set(self.skills)
Relevant(p, S) == Range(p.skills) \cap Range(S)

RECURSIVE TeamSkills(_, _)
\* ts = set(); for p in t: ts.update(set(p.skills) & set(self.skills))
TeamSkills(t, S) ==
    IF t = <<>> THEN {}
    ELSE Relevant(Head(t), S) \cup TeamSkills(Tail(t), S)

NameRank(n) == CHOOSE i \in 1..Len(NameOrder) : NameOrder[i] = n

\* Person.__lt__: by name only
PersonLt(p, q) == NameRank(p.name) < NameRank(q.name)

RECURSIVE InsertByName(_, _)
\* p goes after every element that is not greater than it (stable)
InsertByName(p, s) ==
    IF s = <<>> THEN <<p>>
    ELSE IF PersonLt(p, Head(s)) THEN <<p>> \o s
    ELSE <<Head(s)>> \o InsertByName(p, Tail(s))

RECURSIVE SortTeam(_)
\* team.sort(): stable, by Person.__lt__
SortTeam(t) ==
    IF t = <<>> THEN <<>>
    ELSE InsertByName(t[Len(t)], SortTeam(SubSeq(t, 1, Len(t) - 1)))

RECURSIVE Price(_)
\* sum([person.salary for person in team])
Price(t) == IF t = <<>> THEN 0 ELSE Head(t).salary + Price(Tail(t))

RECURSIVE InsertByPriceTiesFirst(_, _)
\* as InsertByPrice, a team going before the teams of its own price
InsertByPriceTiesFirst(t, s) ==
    IF s = <<>> THEN <<t>>
    ELSE IF Price(t) <= Price(Head(s)) THEN <<t>> \o s
    ELSE <<Head(s)>> \o InsertByPriceTiesFirst(t, Tail(s))

RECURSIVE InsertByPrice(_, _)
InsertByPrice(t, s) ==
    IF s = <<>> THEN <<t>>
    ELSE IF Price(t) < Price(Head(s)) THEN <<t>> \o s
    ELSE <<Head(s)>> \o InsertByPrice(t, Tail(s))

RECURSIVE SortTeams(_)
\* teams.sort(key=lambda team: sum(...)): stable, ascending by price
SortTeams(ts) ==
    IF ts = <<>> THEN <<>>
    ELSE InsertByPrice(ts[Len(ts)], SortTeams(SubSeq(ts, 1, Len(ts) - 1)))

RECURSIVE Remove(_, _)
\* list.remove(x): drops the first element equal to x
Remove(s, x) ==
    IF s = <<>> THEN <<>>
    ELSE IF Head(s) = x THEN Tail(s)
    ELSE <<Head(s)>> \o Remove(Tail(s), x)

\* as AppendIfNew, without the test of line 133, 145 and 173
AppendAlways(ts, t) == Append(ts, t)

\* if team not in teams: teams.append(team)
AppendIfNew(ts, t) == IF In(t, ts) THEN ts ELSE Append(ts, t)

----------------------------------------------------------------------------
(* make_teams, lines 106-125 *)

\* [p for p in people if set(self.skills) & set(p.skills)]
PeopleHaveSkills(S, ps) == SelectSeq(ps, LAMBDA p : Relevant(p, S) # {})

RECURSIVE Occurrences(_, _)
Occurrences(x, s) ==
    IF s = <<>> THEN 0
    ELSE (IF Head(s) = x THEN 1 ELSE 0) + Occurrences(x, Tail(s))

RECURSIVE Repeat(_, _)
Repeat(x, n) == IF n = 0 THEN <<>> ELSE <<x>> \o Repeat(x, n - 1)

RECURSIVE SkillsCount(_, _, _)
\* skills_count[skill] after the loops of lines 111-114: p is appended once
\* for every position of self.skills that holds the skill
SkillsCount(skill, S, phs) ==
    IF phs = <<>> THEN <<>>
    ELSE (IF skill \in Range(Head(phs).skills)
          THEN Repeat(Head(phs), Occurrences(skill, S))
          ELSE <<>>) \o SkillsCount(skill, S, Tail(phs))

RECURSIVE DictKeys(_)
\* the keys of {s: [] for s in self.skills}, in insertion order
DictKeys(S) ==
    IF S = <<>> THEN <<>>
    ELSE LET rest == DictKeys(SubSeq(S, 1, Len(S) - 1))
         IN  IF In(S[Len(S)], rest) THEN rest ELSE Append(rest, S[Len(S)])

RECURSIVE UniqueOf(_, _, _)
UniqueOf(keys, S, phs) ==
    IF keys = <<>> THEN <<>>
    ELSE LET count == SkillsCount(Head(keys), S, phs)
         IN  (IF Len(count) = 1 THEN <<count[1]>> ELSE <<>>)
             \o UniqueOf(Tail(keys), S, phs)

\* [count[0] for skill, count in skills_count.items() if len(count) == 1]
PeopleWithUniqueSkills(S, phs) == UniqueOf(DictKeys(S), S, phs)

\* init(curr), the team part
InitTeam(uniq, curr) == IF In(curr, uniq) THEN uniq ELSE Append(uniq, curr)

----------------------------------------------------------------------------
(* make_teams, lines 153-171: removal of unnecessary people *)

WithoutIndex(t, i) == SubSeq(t, 1, i - 1) \o SubSeq(t, i + 1, Len(t))

RECURSIVE RemovedFrom(_, _, _, _)
\* removed: team[i] for every i whose absence leaves teams_skills covered
RemovedFrom(t, i, ts, S) ==
    IF i > Len(t) THEN <<>>
    ELSE (IF TeamSkills(WithoutIndex(t, i), S) = ts THEN <<t[i]>> ELSE <<>>)
         \o RemovedFrom(t, i + 1, ts, S)

RECURSIVE RemoveAll(_, _, _, _)
\* for r in removed: team.remove(r); put r back when the rest lost a skill
RemoveAll(t, removed, ts, S) ==
    IF removed = <<>> THEN t
    ELSE LET r    == Head(removed)
             less == Remove(t, r)
             kept == IF TeamSkills(less, S) # ts THEN Append(less, r) ELSE less
         IN  RemoveAll(kept, Tail(removed), ts, S)

Prune(t, ts, S) == RemoveAll(t, RemovedFrom(t, 1, ts, S), ts, S)

----------------------------------------------------------------------------
(* line 179: self.__teams = teams *)

\* as StoreTeams, the new teams added to the stored ones
StoreTeamsExtend(tks, t, new) == [tks EXCEPT ![t].teams = @ \o new]

\* as StoreTeams, teams being one list shared by all tasks
StoreTeamsShared(tks, t, new) == [k \in 1..Len(tks) |-> [tks[k] EXCEPT !.teams = new]]

StoreTeams(tks, t, new) == [tks EXCEPT ![t].teams = new]

----------------------------------------------------------------------------
(* State machine *)

S == tasks[self].skills
current_person == people_have_skills[curr_i]
other_person == people_have_skills[other_i]

MkTask(n, sk) == [name |-> n, skills |-> sk, teams |-> <<>>]

InitLocals ==
    /\ pc = "idle"
    /\ self = 0
    /\ people_have_skills = <<>>
    /\ people_with_unique_skills = <<>>
    /\ teams = <<>>
    /\ curr_i = 0
    /\ other_i = 0
    /\ team = <<>>
    /\ teams_skills = {}

Init ==
    /\ people \in Rosters(Pool)
    /\ \E sk \in TaskSkills : tasks = <<MkTask("One", sk)>>
    /\ calls = [t \in 1..1 |-> 0]
    /\ InitLocals

InitTasks ==
    /\ people \in Rosters(PoolOfTasks)
    /\ \E pr \in TaskPairs : tasks = <<MkTask("One", pr[1]), MkTask("Two", pr[2])>>
    /\ calls = [t \in 1..2 |-> 0]
    /\ InitLocals

\* t.make_teams(people): lines 106-116 and the entry of the outer loop
Call(t) ==
    /\ pc = "idle"
    /\ calls[t] < MaxCalls
    /\ self' = t
    /\ people_have_skills' = PeopleHaveSkills(tasks[t].skills, people)
    /\ people_with_unique_skills' =
           PeopleWithUniqueSkills(tasks[t].skills, people_have_skills')
    /\ teams' = <<>>
    /\ curr_i' = 1
    /\ pc' = "outer"
    /\ UNCHANGED <<people, tasks, calls, other_i, team, teams_skills>>

\* lines 128-135: the seed already has every skill
SeedCovers ==
    /\ pc = "outer"
    /\ curr_i <= Len(people_have_skills)
    /\ LET t == InitTeam(people_with_unique_skills, current_person)
       IN  /\ TeamSkills(t, S) = Range(S)
           /\ teams' = AppendIfNew(teams, SortTeam(t))
    /\ curr_i' = curr_i + 1
    /\ UNCHANGED <<people, tasks, calls, pc, self, people_have_skills,
                   people_with_unique_skills, other_i, team, teams_skills>>

\* lines 128-131, 137: the seed lacks a skill, the inner loop starts
SeedLacks ==
    /\ pc = "outer"
    /\ curr_i <= Len(people_have_skills)
    /\ LET t == InitTeam(people_with_unique_skills, current_person)
       IN  /\ TeamSkills(t, S) # Range(S)
           /\ team' = t
           /\ teams_skills' = TeamSkills(t, S)
    /\ other_i' = 1
    /\ pc' = "inner"
    /\ UNCHANGED <<people, tasks, calls, self, people_have_skills,
                   people_with_unique_skills, teams, curr_i>>

\* the outer loop moves on; team and teams_skills are dead until the next init
NextCurrent ==
    /\ curr_i' = curr_i + 1
    /\ other_i' = 0
    /\ team' = <<>>
    /\ teams_skills' = {}
    /\ pc' = "outer"

\* lines 138-139
ScanSkip ==
    /\ pc = "inner"
    /\ other_i <= Len(people_have_skills)
    /\ other_person = current_person \/ In(other_person, team)
    /\ other_i' = other_i + 1
    /\ UNCHANGED <<people, tasks, calls, pc, self, people_have_skills,
                   people_with_unique_skills, teams, curr_i, team, teams_skills>>

\* as IsSuper, with issubset for ==
IsSuperSubset(o, sk) == Relevant(o, sk) \subseteq Range(sk)

\* lines 141-143: other_person_skills == set(self.skills)
IsSuper(o, sk) == Relevant(o, sk) = Range(sk)

\* lines 141-147: the other person has every skill alone
ScanSuper ==
    /\ pc = "inner"
    /\ other_i <= Len(people_have_skills)
    /\ ~(other_person = current_person \/ In(other_person, team))
    /\ IsSuper(other_person, S)
    /\ teams' = AppendIfNew(teams, <<other_person>>)
    /\ NextCurrent
    /\ UNCHANGED <<people, tasks, calls, self, people_have_skills,
                   people_with_unique_skills>>

\* as Extended, the skills merged but the person not appended
ExtendedNoAppend(t, ts, o, sk) ==
    IF Relevant(o, sk) \subseteq ts
    THEN [team |-> t, skills |-> ts]
    ELSE [team |-> t, skills |-> ts \cup Relevant(o, sk)]

\* as Extended, the person appended but the skills not merged
ExtendedNoUpdate(t, ts, o, sk) ==
    IF Relevant(o, sk) \subseteq ts
    THEN [team |-> t, skills |-> ts]
    ELSE [team |-> Append(t, o), skills |-> ts]

\* lines 149-151 on the working team
Extended(t, ts, o, sk) ==
    IF Relevant(o, sk) \subseteq ts
    THEN [team |-> t, skills |-> ts]
    ELSE [team |-> Append(t, o), skills |-> ts \cup Relevant(o, sk)]

\* lines 141-153: the other person is taken or passed over, skills still missing
ScanExtend ==
    /\ pc = "inner"
    /\ other_i <= Len(people_have_skills)
    /\ ~(other_person = current_person \/ In(other_person, team))
    /\ ~IsSuper(other_person, S)
    /\ LET e == Extended(team, teams_skills, other_person, S)
       IN  /\ e.skills # Range(S)
           /\ team' = e.team
           /\ teams_skills' = e.skills
    /\ other_i' = other_i + 1
    /\ UNCHANGED <<people, tasks, calls, pc, self, people_have_skills,
                   people_with_unique_skills, teams, curr_i>>

\* lines 141-176: the team is gathered, pruned, recorded and re-seeded
ScanGather ==
    /\ pc = "inner"
    /\ other_i <= Len(people_have_skills)
    /\ ~(other_person = current_person \/ In(other_person, team))
    /\ ~IsSuper(other_person, S)
    /\ LET e == Extended(team, teams_skills, other_person, S)
           t == InitTeam(people_with_unique_skills, current_person)
       IN  /\ e.skills = Range(S)
           /\ teams' = AppendIfNew(teams, SortTeam(Prune(e.team, e.skills, S)))
           /\ team' = t
           /\ teams_skills' = TeamSkills(t, S)
    /\ other_i' = other_i + 1
    /\ UNCHANGED <<people, tasks, calls, pc, self, people_have_skills,
                   people_with_unique_skills, curr_i>>

\* the inner loop ran out of people
ScanEnd ==
    /\ pc = "inner"
    /\ other_i > Len(people_have_skills)
    /\ NextCurrent
    /\ UNCHANGED <<people, tasks, calls, self, people_have_skills,
                   people_with_unique_skills, teams>>

\* lines 178-179 and the return
Finish ==
    /\ pc = "outer"
    /\ curr_i > Len(people_have_skills)
    /\ tasks' = StoreTeams(tasks, self, SortTeams(teams))
    /\ calls' = [calls EXCEPT ![self] = @ + 1]
    /\ pc' = "idle"
    /\ self' = 0
    /\ people_have_skills' = <<>>
    /\ people_with_unique_skills' = <<>>
    /\ teams' = <<>>
    /\ curr_i' = 0
    /\ UNCHANGED <<people, other_i, team, teams_skills>>

Next ==
    \/ \E t \in 1..Len(tasks) : Call(t)
    \/ SeedCovers
    \/ SeedLacks
    \/ ScanSkip
    \/ ScanSuper
    \/ ScanExtend
    \/ ScanGather
    \/ ScanEnd
    \/ Finish

Spec == Init /\ [][Next]_vars

SpecTasks == InitTasks /\ [][Next]_vars

----------------------------------------------------------------------------
(* Vocabulary of the properties, stated apart from the operators above *)

SkillsOf(t) == UNION { Range(t[i].skills) : i \in 1..Len(t) }

\* the team covers the required skills sk
Covers(t, sk) == Range(sk) \subseteq SkillsOf(t)

TotalSalary(t) == IF t = <<>> THEN 0
                  ELSE LET sum[i \in 0..Len(t)] ==
                               IF i = 0 THEN 0 ELSE sum[i - 1] + t[i].salary
                       IN  sum[Len(t)]

\* position of the first entry of ts that equals t
Position(ts, t) == CHOOSE i \in 1..Len(ts) :
                       ts[i] = t /\ \A j \in 1..(i - 1) : ts[j] # t

\* roster positions of the filtered candidates of task k that have skill s
Holders(k, s) ==
    { i \in 1..Len(people) :
          /\ Range(people[i].skills) \cap Range(tasks[k].skills) # {}
          /\ s \in Range(people[i].skills) }

\* the step on which make_teams sorts, stores and returns
Returns == pc = "outer" /\ pc' = "idle"

\* every list of teams in the state: the stored ones and the one being built
TeamLists ==
    { <<tasks[k].teams, tasks[k].skills>> : k \in 1..Len(tasks) }
    \cup (IF self = 0 THEN {} ELSE { <<teams, tasks[self].skills>> })

----------------------------------------------------------------------------
(* Claims *)

\* C1: every team of a task, stored or being collected, has all the skills
\* the task requires.
C1_FullCoverage ==
    \A tl \in TeamLists : \A i \in 1..Len(tl[1]) : Covers(tl[1][i], tl[2])

\* C1 witness: a finished task with a one-person team and a larger team
C1_Witness ==
    /\ pc = "idle" /\ calls[1] >= 1
    /\ \E i, j \in 1..Len(tasks[1].teams) :
           Len(tasks[1].teams[i]) = 1 /\ Len(tasks[1].teams[j]) >= 3

\* C2: no stored team has a member whose removal leaves the required skills
\* covered.
C2_NoRedundantMember ==
    \A k \in 1..Len(tasks) : \A i \in 1..Len(tasks[k].teams) :
        \A m \in 1..Len(tasks[k].teams[i]) :
            ~Covers(WithoutIndex(tasks[k].teams[i], m), tasks[k].skills)

\* C3: a candidate who alone holds some required skill is in every team of
\* the task, stored or being collected.
C3_UniquePeopleInEveryTeam ==
    \A k \in 1..Len(tasks) :
        LET lists == <<tasks[k].teams, IF self = k THEN teams ELSE <<>> >>
        IN  (lists # << <<>>, <<>> >>) =>
                \A s \in Range(tasks[k].skills) :
                    LET H == Holders(k, s)
                    IN  Cardinality(H) = 1 =>
                            \A h \in H : \A l \in 1..2 : \A i \in 1..Len(lists[l]) :
                                In(people[h], lists[l][i])

\* C3 witness: a sole holder of a skill, next to a person who has every
\* skill of the task but that one, and two or more teams
C3_Witness ==
    /\ pc = "idle" /\ calls[1] >= 1
    /\ Len(tasks[1].teams) >= 2
    /\ \E s \in Range(tasks[1].skills) :
           /\ Cardinality(Holders(1, s)) = 1
           /\ \E i \in 1..Len(people) :
                  Range(people[i].skills) \cap Range(tasks[1].skills)
                      = Range(tasks[1].skills) \ {s}

\* C4: no list of teams, stored or being collected, holds the same sequence
\* of people twice.
C4_NoDuplicateTeams ==
    \A tl \in TeamLists : \A i, j \in 1..Len(tl[1]) :
        i # j => tl[1][i] # tl[1][j]

\* C4 witness: the search is about to finalize a seed team that is already
\* in the list, beside another team
C4_Witness ==
    /\ pc = "outer" /\ curr_i > 1 /\ curr_i <= Len(people_have_skills)
    /\ Len(teams) >= 2
    /\ LET t == InitTeam(people_with_unique_skills, current_person)
       IN  Covers(t, S) /\ In(SortTeam(t), teams)

\* C5: the list make_teams stores has the teams it found, in order of
\* non-decreasing total salary, teams of equal total salary in the order in
\* which they were found.
C5_CostRanking ==
    [][Returns =>
         LET L == tasks'[self].teams
         IN  /\ Len(L) = Len(teams)
             /\ Range(L) = Range(teams)
             /\ \A i, j \in 1..Len(L) :
                    i < j =>
                        /\ TotalSalary(L[i]) <= TotalSalary(L[j])
                        /\ TotalSalary(L[i]) = TotalSalary(L[j]) =>
                               Position(teams, L[i]) < Position(teams, L[j])]_vars

\* C5 witness: a stored list with two teams of equal total salary and a
\* dearer one
C5_Witness ==
    /\ pc = "idle" /\ calls[1] >= 1
    /\ \E i, j, l \in 1..Len(tasks[1].teams) :
           /\ i < j /\ j < l
           /\ TotalSalary(tasks[1].teams[i]) = TotalSalary(tasks[1].teams[j])
           /\ TotalSalary(tasks[1].teams[j]) < TotalSalary(tasks[1].teams[l])

\* C6: once make_teams has run on a task with required skills, every person
\* of the roster who has all of them alone is stored as a one-person team,
\* exactly once.
C6_SingletonForSuperPerson ==
    \A k \in 1..Len(tasks) :
        (calls[k] >= 1 /\ tasks[k].skills # <<>>) =>
            \A p \in Range(people) :
                Covers(<<p>>, tasks[k].skills) =>
                    Cardinality({ i \in 1..Len(tasks[k].teams) :
                                      tasks[k].teams[i] = <<p>> }) = 1

\* C7: a later call of make_teams on a task stores the list the earlier call
\* stored.
C7_Idempotent ==
    [][(Returns /\ calls[self] >= 1) =>
           tasks'[self].teams = tasks[self].teams]_vars

\* C7 witness: make_teams has returned twice on a task with several teams
C7_Witness ==
    /\ pc = "idle" /\ calls[1] = 2
    /\ Len(tasks[1].teams) >= 3

\* C8: the members of a stored team are pairwise distinct.
C8_DistinctMembers ==
    \A k \in 1..Len(tasks) : \A i \in 1..Len(tasks[k].teams) :
        \A m, n \in 1..Len(tasks[k].teams[i]) :
            m # n => tasks[k].teams[i][m] # tasks[k].teams[i][n]

\* C9: once make_teams has run on a task, its list of teams is empty exactly
\* when the task requires no skill or requires one that nobody in the roster
\* has.
C9_EmptyExactlyWhenUncoverable ==
    \A k \in 1..Len(tasks) :
        calls[k] >= 1 =>
            (tasks[k].teams = <<>>
                <=> \/ tasks[k].skills = <<>>
                    \/ \E s \in Range(tasks[k].skills) :
                           \A i \in 1..Len(people) : s \notin Range(people[i].skills))

\* C9 witness: teams were found although no seed has every skill and nobody
\* has every skill alone, so each of them was gathered in the scan
C9_Witness ==
    /\ pc = "idle" /\ calls[1] >= 1
    /\ Len(tasks[1].teams) >= 2
    /\ LET sk   == tasks[1].skills
           phs  == PeopleHaveSkills(sk, people)
           uniq == PeopleWithUniqueSkills(sk, phs)
       IN  \A i \in 1..Len(phs) :
               /\ ~Covers(InitTeam(uniq, phs[i]), sk)
               /\ ~Covers(<<phs[i]>>, sk)

\* C10: no step changes the roster, a task's name or skills, or the teams of
\* a task other than the one make_teams runs on; and tasks that require the
\* same skills get the same teams, whichever was processed first.
C10_Frame ==
    /\ [][/\ people' = people
          /\ Len(tasks') = Len(tasks)
          /\ \A k \in 1..Len(tasks) :
                 /\ tasks'[k].name = tasks[k].name
                 /\ tasks'[k].skills = tasks[k].skills
                 /\ k # self => tasks'[k].teams = tasks[k].teams]_vars
    /\ [](\A k, l \in 1..Len(tasks) :
              (calls[k] >= 1 /\ calls[l] >= 1 /\ tasks[k].skills = tasks[l].skills)
                  => tasks[k].teams = tasks[l].teams)

\* C10 witness: make_teams has run on the first task only and stored teams,
\* the second task still has none although the roster covers its skills
C10_Witness ==
    /\ pc = "idle" /\ Len(tasks) = 2
    /\ calls[1] >= 1 /\ calls[2] = 0
    /\ Len(tasks[1].teams) >= 2
    /\ tasks[2].teams = <<>>
    /\ Covers(people, tasks[2].skills)

====
